---- MODULE Spec2Model ----
(***************************************************************************)
(* Model of the invoice desktop application (src/5.py): the SQLite store   *)
(* (customers, products, invoices, invoice_items), the artifact directory, *)
(* the pending-invoice item tree, the history tree, and the handlers that  *)
(* change them.                                                            *)
(*                                                                         *)
(* Conventions.                                                            *)
(*  - Text is a TLA+ string.  A decimal text with two fraction digits      *)
(*    ("19.99") is written as its number of hundredths (1999); the         *)
(*    conversions between such text and Python floats are Float/Format2.   *)
(*  - A Python float is a binary floating-point number m * 2^e that is     *)
(*    rounded to nearest, ties to even, after every operation.  The model  *)
(*    keeps that rule with a significand of FloatBits bits.                *)
(*  - SQL NULL / Python None in an integer column is written 0 (row ids    *)
(*    start at 1).                                                         *)
(*  - Columns and widgets that no handler reads back (address, email,      *)
(*    status, payment_method, notes, barcode, the tree's display-only      *)
(*    subtotal column) are left out.                                       *)
(***************************************************************************)
EXTENDS Integers, Sequences, FiniteSets, TLC

VARIABLES
    today,            \* the local calendar date, as its day of the month
    customers,        \* table customers, in rowid order
    products,         \* table products, in rowid order
    invoices,         \* table invoices, in rowid order (committed rows)
    invoice_items,    \* table invoice_items, in rowid order (committed rows)
    sqlite_sequence,  \* AUTOINCREMENT counters of invoices and invoice_items
    files,            \* paths that exist under the working directory
    items_tree,       \* rows of the pending-invoice Treeview
    hist_tree,        \* invoice ids listed in the history Treeview
    last,             \* the most recent command and how it ended
    COMPANY,          \* the in-memory company profile (module global COMPANY)
    company_json,     \* what company.json holds on disk
    workbook,         \* the rows of the last exported workbook
    pdf_pages         \* the document being rendered: cursor, page, what was
                      \* drawn so far, and the items still to draw

vars == <<today, customers, products, invoices, invoice_items,
          sqlite_sequence, files, items_tree, hist_tree, last,
          COMPANY, company_json, workbook, pdf_pages>>

\* what the invoice and history handlers never touch
outside_store == <<COMPANY, company_json, workbook, pdf_pages>>

\* the invoice tab and the history tab
store == <<today, customers, products, invoices, invoice_items,
           sqlite_sequence, files, items_tree, hist_tree>>

(***************************** bounds ***************************************)
MaxDay == 2
MaxCustomers == 2
MaxProducts == 1
MaxInvoices == 2
MaxItems == 1
FloatBits == 8

(***************************** integers *************************************)
RECURSIVE Pow2(_)
Pow2(n) == IF n <= 0 THEN 1 ELSE 2 * Pow2(n - 1)

RECURSIVE BitLen(_)
BitLen(n) == IF n = 0 THEN 0 ELSE 1 + BitLen(n \div 2)

Abs(n) == IF n < 0 THEN -n ELSE n

Sgn(n) == IF n < 0 THEN -1 ELSE 1

MinOf(S) == CHOOSE x \in S : \A y \in S : x <= y

(***************************** Python floats ********************************)
Zero == [m |-> 0, e |-> 0]

\* canonical form of m * 2^e: odd significand, or zero
RECURSIVE Norm(_, _)
Norm(m, e) ==
    IF m = 0 THEN Zero
    ELSE IF m % 2 = 0 THEN Norm(m \div 2, e + 1)
    ELSE [m |-> m, e |-> e]

\* m * 2^e rounded to FloatBits significant bits, nearest, ties to even
RoundToPrec(m, e) ==
    LET a == Abs(m)
        k == BitLen(a) - FloatBits
    IN  IF k <= 0 THEN Norm(m, e)
        ELSE LET q == a \div Pow2(k)
                 r == a % Pow2(k)
                 h == Pow2(k - 1)
                 up == r > h \/ (r = h /\ q % 2 = 1)
             IN  Norm(Sgn(m) * (IF up THEN q + 1 ELSE q), e + k)

\* (num / den) * 2^e correctly rounded; den > 0
RoundRat(num, den, e) ==
    IF num = 0 THEN Zero
    ELSE LET a == Abs(num)
             need == BitLen(den) + FloatBits + 1 - BitLen(a)
             k == IF need > 0 THEN need ELSE 0
             n == a * Pow2(k)
             q == n \div den
             sticky == IF n % den = 0 THEN 0 ELSE 1
         IN  RoundToPrec(Sgn(num) * (2 * q + sticky), e - k - 1)

FromInt(n) == RoundToPrec(n, 0)

FNeg(x) == [m |-> -x.m, e |-> x.e]

FMul(x, y) == RoundToPrec(x.m * y.m, x.e + y.e)

FAdd(x, y) ==
    IF x.m = 0 THEN y
    ELSE IF y.m = 0 THEN x
    ELSE LET tx == x.e + BitLen(Abs(x.m))
             ty == y.e + BitLen(Abs(y.m))
             e == IF x.e < y.e THEN x.e ELSE y.e
         IN  IF tx - ty > FloatBits + 2 THEN x
             ELSE IF ty - tx > FloatBits + 2 THEN y
             ELSE RoundToPrec(x.m * Pow2(x.e - e) + y.m * Pow2(y.e - e), e)

FSub(x, y) == FAdd(x, FNeg(y))

\* x < y
FLess(x, y) == FSub(x, y).m < 0

\* x / y for y # 0
FDiv(x, y) == RoundRat(Sgn(y.m) * x.m, Abs(y.m), x.e - y.e)

\* float("d.dd"): the float nearest to h hundredths
Float(h) == RoundRat(h, 100, 0)

\* f"{x:.2f}": x rounded to hundredths, ties to even, as a count of hundredths
Format2(x) ==
    LET n == x.m * 100
    IN  IF x.e >= 0 THEN n * Pow2(x.e)
        ELSE LET d == Pow2(-x.e)
                 q == Abs(n) \div d
                 r == Abs(n) % d
                 up == 2 * r > d \/ (2 * r = d /\ q % 2 = 1)
             IN  Sgn(n) * (IF up THEN q + 1 ELSE q)

Hundred == FromInt(100)

(***************************** text ******************************************)
RECURSIVE Pad(_, _)
Pad(s, width) == IF Len(s) < width THEN Pad("0" \o s, width) ELSE s

\* SQL:  s LIKE prefix || '%'
Like(s, prefix) == Len(prefix) <= Len(s) /\ SubSeq(s, 1, Len(prefix)) = prefix

\* datetime.now().strftime("%Y%m%d")
StrfCompact(day) == "2026" \o "11" \o Pad(ToString(day), 2)

\* datetime.now().strftime("%Y-%m-%d %H:%M:%S"); the time of day is not modelled
StrfDateTime(day) == "2026" \o "-" \o "11" \o "-" \o Pad(ToString(day), 2) \o " " \o "12:00:00"

PDF_DIR == "invoices"

\* A value read back from a Treeview row: ttk turns a text that int() accepts
\* into that integer, and SQLite writes the integer as its decimal text when
\* it meets a TEXT column.  Signs, blanks and underscores are not modelled.
DigitChars == {"0", "1", "2", "3", "4", "5", "6", "7", "8", "9"}

RECURSIVE IsDigits(_)
IsDigits(s) ==
    s = "" \/ (SubSeq(s, 1, 1) \in DigitChars /\ IsDigits(SubSeq(s, 2, Len(s))))

RECURSIVE StripZeros(_)
StripZeros(s) ==
    IF Len(s) > 1 /\ SubSeq(s, 1, 1) = "0" THEN StripZeros(SubSeq(s, 2, Len(s))) ELSE s

TkValue(s) == IF s # "" /\ IsDigits(s) THEN StripZeros(s) ELSE s

PathJoin(dir, name) == dir \o "/" \o name

(***************************** pure functions *******************************)
Reverse(s) == [i \in 1..Len(s) |-> s[Len(s) + 1 - i]]

\* SELECT COUNT(*) FROM invoices WHERE date LIKE today%
CountForDate(rows, prefix) ==
    Cardinality({i \in DOMAIN rows : Like(rows[i].date, prefix)})

generate_invoice_number(rows, day) ==
    LET prefix == StrfCompact(day)
        n == CountForDate(rows, prefix) + 1
    IN  "INV-" \o prefix \o "-" \o Pad(ToString(n), 4)

\* Per-line arithmetic shared by the handlers (qty is an int, the rest floats):
\*     base = unit * qty
\*     discount_amount = base * (disc / 100.0)
\*     taxable = base - discount_amount
\*     tax_amount = taxable * (t_pct / 100.0)
\*     line_total = taxable + tax_amount
\* Each value is computed once and handed on, as the code's locals are.
Taxable(base, d_pct) == FSub(base, FMul(base, FDiv(d_pct, Hundred)))

LineRecord(taxable, tax_amount) ==
    [taxable |-> taxable, tax_amount |-> tax_amount,
     line_total |-> FAdd(taxable, tax_amount)]

TaxOn(taxable, t_pct) == LineRecord(taxable, FMul(taxable, FDiv(t_pct, Hundred)))

LineAmounts(qty, unit, d_pct, t_pct) ==
    TaxOn(Taxable(FMul(unit, FromInt(qty)), d_pct), t_pct)

\* one pass of the loop of compute_totals: subtotal += taxable; taxes_total += tax_amount
TotalsStep(acc, a) ==
    [subtotal |-> FAdd(acc.subtotal, a.taxable),
     taxes_total |-> FAdd(acc.taxes_total, a.tax_amount)]

\* the loop of compute_totals over the first n tree rows
RECURSIVE TotalsLoop(_, _)
TotalsLoop(tree, n) ==
    IF n = 0 THEN [subtotal |-> Zero, taxes_total |-> Zero]
    ELSE TotalsStep(TotalsLoop(tree, n - 1),
                    LineAmounts(tree[n].qty, Float(tree[n].unit_price),
                                Float(tree[n].disc_pct), Float(tree[n].tax_pct)))

\* the end of compute_totals: the invoice discount and the final total
TotalsEnd(acc, inv_disc_pct) ==
    [subtotal |-> acc.subtotal, taxes_total |-> acc.taxes_total,
     inv_disc_pct |-> inv_disc_pct,
     final_total |-> FSub(FAdd(acc.subtotal, acc.taxes_total),
                          FMul(acc.subtotal, FDiv(inv_disc_pct, Hundred)))]

\* compute_totals: tree rows and the text of the invoice-discount entry
compute_totals(tree, inv_disc_entry) ==
    TotalsEnd(TotalsLoop(tree, Len(tree)), Float(inv_disc_entry))

\* build_invoice_data_from_form: the item dicts (prod_id is not carried over)
build_items(tree) ==
    [i \in 1..Len(tree) |->
        [product_name |-> TkValue(tree[i].product),
         qty |-> tree[i].qty,
         unit_price |-> Float(tree[i].unit_price),
         discount_percent |-> Float(tree[i].disc_pct),
         tax_percent |-> Float(tree[i].tax_pct)]]

\* the slip of keeping one entry per line instead of one per rate
DictAdd_PerLine(d, k, v) == Append(d, [pct |-> k, amt |-> FAdd(Zero, v)])

\* tax_totals.setdefault(k, 0.0); tax_totals[k] += v  (dict in insertion order)
DictAdd(d, k, v) ==
    IF \E i \in DOMAIN d : d[i].pct = k
    THEN [i \in DOMAIN d |-> IF d[i].pct = k
                             THEN [pct |-> k, amt |-> FAdd(d[i].amt, v)]
                             ELSE d[i]]
    ELSE Append(d, [pct |-> k, amt |-> FAdd(Zero, v)])

\* one pass of the item loop of create_invoice_pdf:
\* subtotal += taxable; if t_pct: tax_totals[t_pct] += tax_amount
PdfStep(acc, it, a) ==
    [subtotal |-> FAdd(acc.subtotal, a.taxable),
     tax_totals |-> IF it.tax_percent.m # 0
                    THEN DictAdd(acc.tax_totals, it.tax_percent, a.tax_amount)
                    ELSE acc.tax_totals]

\* the item loop of create_invoice_pdf over the first n items
RECURSIVE PdfLoop(_, _)
PdfLoop(items, n) ==
    IF n = 0 THEN [subtotal |-> Zero, tax_totals |-> <<>>]
    ELSE PdfStep(PdfLoop(items, n - 1), items[n],
                 LineAmounts(items[n].qty, items[n].unit_price,
                             items[n].discount_percent, items[n].tax_percent))

\* sum(tax_totals.values())
RECURSIVE SumValues(_, _)
SumValues(d, n) ==
    IF n = 0 THEN Zero ELSE FAdd(SumValues(d, n - 1), d[n].amt)

\* sorted(tax_totals.items()): the entries by ascending rate
RECURSIVE InsertByPct(_, _)
InsertByPct(s, e) ==
    IF s = <<>> THEN <<e>>
    ELSE IF FLess(e.pct, Head(s).pct) THEN <<e>> \o s
    ELSE <<Head(s)>> \o InsertByPct(Tail(s), e)

RECURSIVE SortedItems(_)
SortedItems(d) ==
    IF d = <<>> THEN <<>> ELSE InsertByPct(SortedItems(Tail(d)), Head(d))

\* the "Tax (pct%): amt" lines of the totals block
TaxLines(tax_totals) == SortedItems(tax_totals)

\* the end of create_invoice_pdf: the invoice discount and the final total
PdfEnd(acc, invoice_discount_pct) ==
    [tax_totals |-> acc.tax_totals,
     final_total |-> FSub(FAdd(acc.subtotal, SumValues(acc.tax_totals, Len(acc.tax_totals))),
                          FMul(acc.subtotal, FDiv(invoice_discount_pct, Hundred)))]

\* create_invoice_pdf: what it computes; the file it writes is the caller's save_path
create_invoice_pdf(items, invoice_discount_pct) ==
    PdfEnd(PdfLoop(items, Len(items)), invoice_discount_pct)

\* refresh_history: ids of SELECT ... ORDER BY i.id DESC
refresh_history(rows) == Reverse([i \in 1..Len(rows) |-> rows[i].id])

(***************************** the item table on the page ********************)
\* Lengths are millimetres on an A4 portrait page, as FPDF counts them.
BreakMargin == 15      \* set_auto_page_break(auto=True, margin=15)
Threshold == 250       \* if pdf.get_y() > 250
HeaderHeight == 8      \* pdf.cell(w[i], 8, h, ...)
RowHeight == 7         \* pdf.cell(w[0], 7, ...)

\* FPDF breaks the page before a cell that would end below this line
PageBreakTrigger == 297 - BreakMargin

\* where the cursor stands after InvoicePDF.header(): top margin 10, then
\* cells of height 6, 5, 5 and ln(6)
PageTop == 10 + 6 + 5 + 5 + 6

\* no document yet
NoPdf == [y |-> 0, page |-> 0, log |-> <<>>, todo |-> 0]

\* add_page(): the next page, with the page header drawn
AddPage(pdf) == [pdf EXCEPT !.y = PageTop, !.page = @ + 1]

\* a line of cells of height h followed by ln(): drawn where the cursor is
Draw(pdf, h, kind) ==
    [pdf EXCEPT !.y = @ + h,
                !.log = Append(@, [page |-> pdf.page, kind |-> kind, y |-> pdf.y])]

\* cell(): the automatic page break comes before the first cell of the line
Line(pdf, h, kind) ==
    Draw(IF pdf.y + h > PageBreakTrigger THEN AddPage(pdf) ELSE pdf, h, kind)

\* the six header cells and ln()
TableHeader(pdf) == Line(pdf, HeaderHeight, "header")

\* the slip of starting the new page without drawing the header again
ItemRow_NoHeader(pdf) ==
    Line(IF pdf.y > Threshold THEN AddPage(pdf) ELSE pdf, RowHeight, "row")

\* one pass of the item loop: the page break with the repeated header, then
\* the six cells of the row and ln()
ItemRow(pdf) ==
    Line(IF pdf.y > Threshold THEN TableHeader(AddPage(pdf)) ELSE pdf, RowHeight, "row")

\* create_invoice_pdf down to the table header, for n items: the customer
\* block has left the cursor at y0 on page 1
BeginTable(y0, n) == TableHeader([y |-> y0, page |-> 1, log |-> <<>>, todo |-> n])

(***************************** company profile ******************************)
\* str.strip() for blanks
RECURSIVE Strip(_)
Strip(s) ==
    IF s = "" THEN s
    ELSE IF SubSeq(s, 1, 1) = " " THEN Strip(SubSeq(s, 2, Len(s)))
    ELSE IF SubSeq(s, Len(s), Len(s)) = " " THEN Strip(SubSeq(s, 1, Len(s) - 1))
    ELSE s

DEFAULT_COMPANY ==
    [name |-> "My Company",
     address |-> "123 Business Road, City",
     contact |-> "Phone: +92-XXXXXXXXX | Email: info@company.com",
     footer |-> "Thank you for your business!",
     signature |-> "Authorized Signature",
     logo |-> "",
     watermark |-> ""]

\* company.json: absent, a JSON document holding cfg, or text that is not JSON
NoFile == [kind |-> "absent"]
JsonFile(cfg) == [kind |-> "json", cfg |-> cfg]
Garbage == [kind |-> "garbage"]

\* load_company: the parsed document; the defaults when the file is absent
\* or json.load raises
load_company(file) ==
    IF file.kind = "json" THEN file.cfg ELSE DEFAULT_COMPANY

\* the module-level save_company(cfg) of line 98: json.dump(cfg) into company.json
save_company_cfg(cfg) == JsonFile(cfg)

(***************************** state ****************************************)
\* what the user is told, kept so that a property can name the command that ran
\* (sel is the selection an export was given, empty for the other commands)
Outcome(op, id, out, note) ==
    [op |-> op, id |-> id, out |-> out, note |-> note, sel |-> <<>>]

Idle == Outcome("none", 0, "done", "")

Init ==
    /\ today = 1
    /\ customers = <<>>
    /\ products = <<>>
    /\ invoices = <<>>
    /\ invoice_items = <<>>
    /\ sqlite_sequence = [invoices |-> 0, invoice_items |-> 0]
    /\ files = {}
    /\ items_tree = <<>>
    /\ hist_tree = refresh_history(<<>>)
    /\ last = Idle
    /\ company_json = NoFile
    /\ COMPANY = load_company(NoFile)
    /\ workbook = [header |-> <<>>, rows |-> <<>>]
    /\ pdf_pages = NoPdf

\* the local date moves on between two commands
Tick ==
    /\ today < MaxDay
    /\ today' = today + 1
    /\ last' = Idle
    /\ UNCHANGED <<outside_store, customers, products, invoices, invoice_items,
                   sqlite_sequence, files, items_tree, hist_tree>>

(***************************** company details ******************************)
\* The "Save Company Details" handler; form holds the texts of the widgets.
\* Line 318 rebinds the global name save_company to this handler, so the call
\* save_company(COMPANY) at line 326 calls the handler itself with one
\* argument and raises TypeError: the seven assignments to COMPANY are done,
\* nothing is written to company.json, no dialog is shown, and Tk reports the
\* exception and goes on.
save_company(form) ==
    /\ COMPANY' = [f \in DOMAIN form |-> Strip(form[f])]
    /\ UNCHANGED company_json
    /\ last' = Outcome("save_company", 0, "type_error", "")
    /\ UNCHANGED <<store, workbook, pdf_pages>>

\* the program is closed and started again: COMPANY = load_company(), the
\* pending invoice is gone and the history is listed anew
Restart ==
    /\ COMPANY' = load_company(company_json)
    /\ items_tree' = <<>>
    /\ hist_tree' = refresh_history(invoices)
    /\ last' = Outcome("restart", 0, "done", "")
    /\ UNCHANGED <<today, customers, products, invoices, invoice_items,
                   sqlite_sequence, files, company_json, workbook, pdf_pages>>

\* create_invoice_pdf for n items reaches the item loop, the cursor having
\* been left at y0 by the customer block
render_begin(y0, n) ==
    /\ pdf_pages' = BeginTable(y0, n)
    /\ last' = Outcome("render", n, "done", "")
    /\ UNCHANGED <<store, COMPANY, company_json, workbook>>

\* one pass of the item loop of create_invoice_pdf
render_row ==
    /\ pdf_pages.todo > 0
    /\ pdf_pages' = [ItemRow(pdf_pages) EXCEPT !.todo = @ - 1]
    /\ UNCHANGED <<store, COMPANY, company_json, workbook, last>>

\* company.json is put in place, damaged or removed outside the program
ReplaceCompanyFile(file) ==
    /\ company_json' = file
    /\ last' = Idle
    /\ UNCHANGED <<store, COMPANY, workbook, pdf_pages>>

(***************************** customers and products ***********************)
CustomerRow(id, name, phone) == [id |-> id, name |-> name, phone |-> phone]

\* save_customer: name and phone are the texts of the two entries
save_customer(name, phone) ==
    /\ IF name = ""
       THEN UNCHANGED customers
       ELSE customers' = Append(customers, CustomerRow(Len(customers) + 1, name, phone))
    /\ last' = Idle
    /\ UNCHANGED <<outside_store, today, products, invoices, invoice_items,
                   sqlite_sequence, files, items_tree, hist_tree>>

\* add_product_db: price_entry is the text of the price entry, in hundredths
add_product_db(name, price_entry) ==
    /\ products' = Append(products, [id |-> Len(products) + 1, name |-> name,
                                     price |-> Float(price_entry)])
    /\ last' = Idle
    /\ UNCHANGED <<outside_store, today, customers, invoices, invoice_items,
                   sqlite_sequence, files, items_tree, hist_tree>>

(***************************** the pending invoice **************************)
\* add_item_to_invoice: pid is the id parsed from the combobox text, qty the
\* integer in the quantity entry, d_entry and t_entry the percentage texts
add_item_to_invoice(pid, qty, d_entry, t_entry) ==
    /\ IF \E i \in DOMAIN products : products[i].id = pid
       THEN LET row == products[CHOOSE i \in DOMAIN products : products[i].id = pid]
                d == Float(d_entry)
                t == Float(t_entry)
            IN  items_tree' = Append(items_tree,
                    [prod_id |-> pid, product |-> row.name, qty |-> qty,
                     unit_price |-> Format2(row.price),
                     disc_pct |-> Format2(d), tax_pct |-> Format2(t)])
       ELSE UNCHANGED items_tree
    /\ last' = Idle
    /\ UNCHANGED <<outside_store, today, customers, products, invoices, invoice_items,
                   sqlite_sequence, files, hist_tree>>

\* remove_selected_item with the k-th row selected
remove_selected_item(k) ==
    /\ k \in DOMAIN items_tree
    /\ items_tree' = [i \in 1..(Len(items_tree) - 1) |->
                        IF i < k THEN items_tree[i] ELSE items_tree[i + 1]]
    /\ last' = Idle
    /\ UNCHANGED <<outside_store, today, customers, products, invoices, invoice_items,
                   sqlite_sequence, files, hist_tree>>

(***************************** save_invoice *********************************)
\* How far one run of save_invoice gets.  "pdf_failed": create_invoice_pdf
\* raises; "crash_...": the process dies right after the named step.
SaveOutcomes == {"ok", "pdf_failed", "crash_after_customer",
                 "crash_after_pdf", "crash_after_invoice"}

Crashed(out) == out \in {"crash", "crash_after_customer", "crash_after_pdf",
                         "crash_after_invoice"}

\* SELECT id FROM customers WHERE name=? AND phone=?   (indices of the matches)
FindCustomer(rows, name, phone) ==
    {i \in DOMAIN rows : rows[i].name = name /\ rows[i].phone = phone}

\* the customers table after "ensure customer exists", and the id that is used
EnsureCustomer(rows, name, phone) ==
    LET found == FindCustomer(rows, name, phone)
    IN  IF found # {}
        THEN [rows |-> rows, cust_id |-> rows[MinOf(found)].id]
        ELSE [rows |-> Append(rows, CustomerRow(Len(rows) + 1, name, phone)),
              cust_id |-> Len(rows) + 1]

\* the artifact is on disk once create_invoice_pdf returned; a failed
\* pdf.output may or may not have created the file
PdfOnDisk(out, wrote) ==
    out \in {"ok", "crash_after_pdf", "crash_after_invoice"} \/ (out = "pdf_failed" /\ wrote)

\* the slip of storing the invoice row before the artifact is rendered
InvoiceInserted_BeforePdf(out) == out \in {"ok", "crash_after_invoice", "pdf_failed"}

\* the INSERT INTO invoices and its commit run only after create_invoice_pdf returned
InvoiceInserted(out) == out \in {"ok", "crash_after_invoice"}

\* the item rows are committed by the last commit of the handler
ItemsCommitted(out) == out = "ok"

\* SELECT id FROM products WHERE name=?  -> first row's id, or None
ProductIdByName(rows, name) ==
    LET found == {i \in DOMAIN rows : rows[i].name = name}
    IN  IF found = {} THEN 0 ELSE rows[MinOf(found)].id

\* the invoice_items rows inserted by the loop over items
ItemRows(items, invoice_id, first_id, prods) ==
    [i \in 1..Len(items) |->
        [id |-> first_id + i - 1,
         invoice_id |-> invoice_id,
         product_id |-> ProductIdByName(prods, items[i].product_name),
         product_name |-> items[i].product_name,
         qty |-> items[i].qty,
         unit_price |-> items[i].unit_price,
         discount_percent |-> items[i].discount_percent,
         tax_percent |-> items[i].tax_percent,
         subtotal |-> LineAmounts(items[i].qty, items[i].unit_price,
                                  items[i].discount_percent, items[i].tax_percent).line_total]]

\* the row of INSERT INTO invoices
InvoiceRow(invoice_id, inv_no, cust_id, totals, final_total_calc, date_str, save_path) ==
    [id |-> invoice_id, invoice_number |-> inv_no, customer_id |-> cust_id,
     subtotal |-> totals.subtotal, taxes |-> totals.taxes_total,
     discount_percent |-> totals.inv_disc_pct, final_total |-> final_total_calc,
     date |-> date_str, file_path |-> save_path]

\* what save_invoice writes, given the values it computed: the customer row,
\* the artifact, the invoice row, the item rows, and the refreshed widgets
SaveWrites(items, ensured, row, out, wrote) ==
    /\ customers' = ensured.rows
    /\ files' = IF PdfOnDisk(out, wrote) THEN files \cup {row.file_path} ELSE files
    /\ invoices' = IF InvoiceInserted(out) THEN Append(invoices, row) ELSE invoices
    /\ invoice_items' =
          IF ItemsCommitted(out)
          THEN invoice_items \o ItemRows(items, row.id,
                                         sqlite_sequence.invoice_items + 1, products)
          ELSE invoice_items
    /\ sqlite_sequence' =
          [invoices |-> IF InvoiceInserted(out) THEN row.id
                        ELSE sqlite_sequence.invoices,
           invoice_items |-> IF ItemsCommitted(out)
                             THEN sqlite_sequence.invoice_items + Len(items)
                             ELSE sqlite_sequence.invoice_items]
    /\ items_tree' = IF out = "pdf_failed" THEN items_tree ELSE <<>>
    /\ hist_tree' = IF out = "pdf_failed" THEN hist_tree ELSE refresh_history(invoices')
    /\ last' = Outcome("save", IF InvoiceInserted(out) THEN row.id ELSE 0, out, "")

\* save_invoice from compute_totals on: totals, number, date, path, artifact, rows
SaveComputed(items, ensured, totals, inv_no, out, wrote) ==
    SaveWrites(items, ensured,
               InvoiceRow(sqlite_sequence.invoices + 1, inv_no, ensured.cust_id, totals,
                          create_invoice_pdf(items, totals.inv_disc_pct).final_total,
                          StrfDateTime(today), PathJoin(PDF_DIR, inv_no \o ".pdf")),
               out, wrote)

\* save_invoice: name_entry, phone_entry and inv_disc_entry are the texts of
\* the form; out and wrote are what the environment does to this run
save_invoice(name_entry, phone_entry, inv_disc_entry, out, wrote) ==
    /\ IF build_items(items_tree) = <<>>
       THEN /\ last' = Outcome("save", 0, "error", "")
            /\ UNCHANGED <<customers, invoices, invoice_items, sqlite_sequence,
                           files, items_tree, hist_tree>>
       ELSE SaveComputed(build_items(items_tree),
                         EnsureCustomer(customers,
                                        IF name_entry = "" THEN "Guest" ELSE name_entry,
                                        phone_entry),
                         compute_totals(items_tree, inv_disc_entry),
                         generate_invoice_number(invoices, today),
                         out, wrote)
    /\ UNCHANGED <<outside_store, today, products>>

(***************************** preview_pdf **********************************)
\* the slip of previewing into the path a save would use
PreviewPath_AsSaved(inv_no) == PathJoin(PDF_DIR, inv_no \o ".pdf")

\* tmp = os.path.join(PDF_DIR, f"{inv_no}_preview.pdf")
PreviewPath(inv_no) == PathJoin(PDF_DIR, inv_no \o "_preview.pdf")

PreviewOutcomes == {"ok", "pdf_failed", "crash"}

preview_pdf(inv_disc_entry, out, wrote) ==
    LET items == build_items(items_tree)
        inv_no == generate_invoice_number(invoices, today)
        tmp == PreviewPath(inv_no)
    IN  /\ IF items = <<>>
           THEN /\ last' = Outcome("preview", 0, "error", "")
                /\ UNCHANGED <<files, items_tree, hist_tree>>
           ELSE /\ files' = IF out # "pdf_failed" \/ wrote THEN files \cup {tmp} ELSE files
                /\ items_tree' = IF Crashed(out) THEN <<>> ELSE items_tree
                /\ hist_tree' = IF Crashed(out) THEN refresh_history(invoices) ELSE hist_tree
                /\ last' = Outcome("preview", 0, out, "")
        /\ UNCHANGED <<outside_store, today, customers, products, invoices, invoice_items, sqlite_sequence>>

(***************************** delete_selected_invoice **********************)
Range(s) == {s[i] : i \in DOMAIN s}

\* the rows of s that are in keep, in order
RECURSIVE KeepRows(_, _)
KeepRows(s, keep) ==
    IF s = <<>> THEN <<>>
    ELSE (IF Head(s) \in keep THEN <<Head(s)>> ELSE <<>>) \o KeepRows(Tail(s), keep)

\* the slip of deleting the header and leaving its item rows behind
DeleteItemsOf_Skipped(rows, iid) == rows

\* DELETE FROM invoice_items WHERE invoice_id=?
DeleteItemsOf(rows, iid) == KeepRows(rows, {r \in Range(rows) : r.invoice_id # iid})

\* DELETE FROM invoices WHERE id=?
DeleteInvoiceRow(rows, iid) == KeepRows(rows, {r \in Range(rows) : r.id # iid})

\* SELECT file_path FROM invoices WHERE id=?  -> the path, or "" when no row
FilePathOf(rows, iid) ==
    LET found == {i \in DOMAIN rows : rows[i].id = iid}
    IN  IF found = {} THEN "" ELSE rows[MinOf(found)].file_path

\* delete_selected_invoice with the sel-th history row selected; confirmed is
\* the answer to the dialog, remove_ok whether os.remove succeeds, crash
\* whether the process dies before the commit
delete_selected_invoice(sel, confirmed, remove_ok, crash) ==
    LET iid == hist_tree[sel]
        path == FilePathOf(invoices, iid)
        on_disk == path # "" /\ path \in files
        files1 == IF on_disk /\ remove_ok THEN files \ {path} ELSE files
        invoices1 == DeleteInvoiceRow(invoices, iid)
        note == IF ~on_disk THEN "file_absent"
                ELSE IF remove_ok THEN "file_removed" ELSE "remove_failed"
    IN  /\ sel \in DOMAIN hist_tree
        /\ IF ~confirmed
           THEN /\ last' = Outcome("delete", iid, "declined", "")
                /\ UNCHANGED <<invoices, invoice_items, files, items_tree, hist_tree>>
           ELSE IF crash
           THEN /\ files' = files1
                /\ items_tree' = <<>>
                /\ hist_tree' = refresh_history(invoices)
                /\ last' = Outcome("delete", iid, "crash", note)
                /\ UNCHANGED <<invoices, invoice_items>>
           ELSE /\ files' = files1
                /\ invoice_items' = DeleteItemsOf(invoice_items, iid)
                /\ invoices' = invoices1
                /\ hist_tree' = refresh_history(invoices1)
                /\ last' = Outcome("delete", iid, "done", note)
                /\ UNCHANGED items_tree
        /\ UNCHANGED <<outside_store, today, customers, products, sqlite_sequence>>

(***************************** export_selected_to_excel *********************)
\* the elements of a set of integers in ascending order
RECURSIVE Ascending(_)
Ascending(S) ==
    IF S = {} THEN <<>> ELSE <<MinOf(S)>> \o Ascending(S \ {MinOf(S)})

\* hist_tree.selection(): the selected rows, as positions in tree order
Selections(tree) == {Ascending(S) : S \in SUBSET DOMAIN tree}

\* the slip of exporting the selected ids in ascending order
SelectedIds_Sorted(tree, sel) == Ascending({tree[sel[k]] : k \in DOMAIN sel})

\* ids = [hist_tree.item(s)['values'][0] for s in sel]
SelectedIds(tree, sel) == [k \in DOMAIN sel |-> tree[sel[k]]]

\* IFNULL(c.name,'Guest') of the LEFT JOIN customers c ON i.customer_id=c.id
JoinedName(custs, cust_id) ==
    IF \E i \in DOMAIN custs : custs[i].id = cust_id
    THEN custs[MinOf({i \in DOMAIN custs : custs[i].id = cust_id})].name
    ELSE "Guest"

\* the SELECT ... WHERE i.id=? of the export loop: the indices of the rows found
FoundById(rows, iid) == {i \in DOMAIN rows : rows[i].id = iid}

\* list(row) for a row that was found
SheetRow(r, custs) ==
    [id |-> r.id, invoice_number |-> r.invoice_number,
     customer |-> JoinedName(custs, r.customer_id), date |-> r.date,
     final_total |-> r.final_total, file_path |-> r.file_path]

ExportHeader ==
    <<"Invoice ID", "Invoice No", "Customer", "Date", "Status", "Final Total", "File Path">>

\* export_selected_to_excel: sel is the selection, path the answer of the
\* save-as dialog ("" when it is cancelled).  fetchone() returns None for an
\* id with no row and list(None) raises TypeError before wb.save.
export_selected_to_excel(sel, path) ==
    /\ sel \in Selections(hist_tree)
    /\ IF sel = <<>>
       THEN /\ last' = [Outcome("export", 0, "error", "") EXCEPT !.sel = sel]
            /\ UNCHANGED workbook
       ELSE IF path = ""
       THEN /\ last' = [Outcome("export", 0, "cancelled", "") EXCEPT !.sel = sel]
            /\ UNCHANGED workbook
       ELSE IF \E k \in DOMAIN sel : FoundById(invoices, SelectedIds(hist_tree, sel)[k]) = {}
       THEN /\ last' = [Outcome("export", 0, "type_error", "") EXCEPT !.sel = sel]
            /\ UNCHANGED workbook
       ELSE /\ workbook' =
                  [header |-> ExportHeader,
                   rows |-> [k \in DOMAIN sel |->
                               SheetRow(invoices[MinOf(FoundById(invoices,
                                            SelectedIds(hist_tree, sel)[k]))],
                                        customers)]]
            /\ last' = [Outcome("export", 0, "ok", "") EXCEPT !.sel = sel]
    /\ UNCHANGED <<store, COMPANY, company_json, pdf_pages>>

\* the operator removes a file by hand, outside the program
ManualRemove(path) ==
    /\ path \in files
    /\ files' = files \ {path}
    /\ last' = Idle
    /\ UNCHANGED <<outside_store, today, customers, products, invoices, invoice_items,
                   sqlite_sequence, items_tree, hist_tree>>

(***************************** specifications *******************************)
\* Spec: every command, on a small catalog with plain amounts.
CustNames == {"", "Ann"}
Phones == {"1"}
ProdNames == {"Pen"}
PriceEntries == {100}
QtyEntries == {1}
PctEntries == {0}

\* room left in the customers table for what save_invoice may insert
RoomForCustomer(name, phone) ==
    Len(EnsureCustomer(customers, IF name = "" THEN "Guest" ELSE name, phone).rows)
        <= MaxCustomers

SaveCustomer ==
    /\ Len(customers) < MaxCustomers
    /\ \E name \in CustNames, phone \in Phones : save_customer(name, phone)

AddProduct ==
    /\ Len(products) < MaxProducts
    /\ \E name \in ProdNames, price \in PriceEntries : add_product_db(name, price)

AddItem ==
    /\ Len(items_tree) < MaxItems
    /\ \E pid \in 1..MaxProducts, qty \in QtyEntries, d \in PctEntries, t \in PctEntries :
          add_item_to_invoice(pid, qty, d, t)

RemoveItem == \E k \in DOMAIN items_tree : remove_selected_item(k)

Preview == \E disc \in PctEntries, out \in PreviewOutcomes, wrote \in BOOLEAN :
              preview_pdf(disc, out, wrote)

Save ==
    /\ sqlite_sequence.invoices < MaxInvoices
    /\ \E name \in CustNames \ {""}, phone \in Phones, disc \in PctEntries,
          out \in SaveOutcomes, wrote \in BOOLEAN :
          /\ RoomForCustomer(name, phone)
          /\ save_invoice(name, phone, disc, out, wrote)

Delete == \E sel \in DOMAIN hist_tree, confirmed \in BOOLEAN, remove_ok \in BOOLEAN,
             crash \in BOOLEAN :
              delete_selected_invoice(sel, confirmed, remove_ok, crash)

RemoveByHand == \E path \in files : ManualRemove(path)

Next == Tick \/ SaveCustomer \/ AddProduct \/ AddItem \/ RemoveItem
        \/ Preview \/ Save \/ Delete

Spec == Init /\ [][Next]_vars

\* SpecEnv: Spec, and the operator may remove artifact files by hand.
NextEnv == Next \/ RemoveByHand

SpecEnv == Init /\ [][NextEnv]_vars

\* SpecPricing: the first invoice, built from up to MaxLines lines with
\* discounts, taxes and inputs that a validation would have to reject.
MaxLines == 3
PriceEntriesP == {2900, -100}
LineEntriesP == {<<3, 0, 1000>>, <<3, 1000, 500>>, <<1, 0, 1000>>,
                 <<0, 0, 0>>, <<1, -1000, -500>>}
InvDiscEntriesP == {0, 1000}

AddProductP ==
    /\ Len(products) < MaxProducts
    /\ \E name \in ProdNames, price \in PriceEntriesP : add_product_db(name, price)

AddItemP ==
    /\ invoices = <<>>
    /\ Len(items_tree) < MaxLines
    /\ \E pid \in 1..MaxProducts, line \in LineEntriesP :
          add_item_to_invoice(pid, line[1], line[2], line[3])

PreviewP == \E disc \in InvDiscEntriesP : preview_pdf(disc, "ok", TRUE)

SaveP ==
    /\ invoices = <<>>
    /\ \E name \in CustNames, phone \in Phones, disc \in InvDiscEntriesP :
          /\ RoomForCustomer(name, phone)
          /\ save_invoice(name, phone, disc, "ok", TRUE)

NextPricing == AddProductP \/ AddItemP \/ RemoveItem \/ PreviewP \/ SaveP

SpecPricing == Init /\ [][NextPricing]_vars

\* SpecExport: saves, deletes and exports of what the history lists.
ExportPaths == {"", "out.xlsx"}

Export == \E sel \in Selections(hist_tree), path \in ExportPaths :
             export_selected_to_excel(sel, path)

NextExport == Tick \/ AddProduct \/ AddItem \/ Save \/ Delete \/ Export

SpecExport == Init /\ [][NextExport]_vars

\* SpecRender: one document, its item table drawn for up to MaxRows items
\* from any cursor position the customer block can leave (its last text line
\* ends at or above the page break trigger, and ln(4) follows).
MaxRows == 34
StartYs == 92..(PageBreakTrigger + 4)

RenderBegin ==
    /\ pdf_pages = NoPdf
    /\ \E y0 \in StartYs, n \in 0..MaxRows : render_begin(y0, n)

RenderRow == render_row

NextRender == RenderBegin \/ RenderRow

SpecRender == Init /\ [][NextRender]_vars

\* SpecCatalog: a catalog of up to MaxCatalog products, which may share a
\* name or carry a name made of digits.
MaxCatalog == 2
CatalogNames == {"Pen", "07"}

AddProductC ==
    /\ Len(products) < MaxCatalog
    /\ \E name \in CatalogNames, price \in PriceEntries : add_product_db(name, price)

AddItemC ==
    /\ Len(items_tree) < MaxItems
    /\ \E pid \in 1..MaxCatalog, qty \in QtyEntries, d \in PctEntries, t \in PctEntries :
          add_item_to_invoice(pid, qty, d, t)

NextCatalog == AddProductC \/ AddItemC \/ RemoveItem \/ Save

SpecCatalog == Init /\ [][NextCatalog]_vars

\* SpecCompany: the company tab, restarts, and company.json changed by hand.
NameEntries == {"Acme", " Acme ", "Bolt", ""}
WatermarkEntries == {"", "PAID", "DRAFT"}

CompanyForms ==
    {[DEFAULT_COMPANY EXCEPT !.name = n, !.watermark = w] :
        n \in NameEntries, w \in WatermarkEntries}

CompanyFiles ==
    {NoFile, Garbage}
        \cup {JsonFile([f \in DOMAIN form |-> Strip(form[f])]) : form \in CompanyForms}

SaveCompanyDetails == \E form \in CompanyForms : save_company(form)

ReplaceFile == \E file \in CompanyFiles : ReplaceCompanyFile(file)

NextCompany == SaveCompanyDetails \/ Restart \/ ReplaceFile

SpecCompany == Init /\ [][NextCompany]_vars

(***************************** properties ***********************************)
ItemsOf(iid) == {i \in DOMAIN invoice_items : invoice_items[i].invoice_id = iid}

\* nothing was ever deleted and every save_invoice that inserted a row ran to its end
OnlyCompleteSaves ==
    /\ sqlite_sequence.invoices = Len(invoices)
    /\ \A i \in DOMAIN invoices : ItemsOf(invoices[i].id) # {}

\* how many of the first i invoice rows carry the date of row i
RankInDay(i) == Cardinality({j \in 1..i : invoices[j].date = invoices[i].date})

\* C1: with no deletion in between, the k-th successful save_invoice of a
\* calendar date is numbered INV-<YYYYMMDD>-<k, four digits>.
C1_DailySequence ==
    OnlyCompleteSaves =>
        \A i \in DOMAIN invoices :
            \E day \in 1..MaxDay :
                /\ invoices[i].date = StrfDateTime(day)
                /\ invoices[i].invoice_number =
                       "INV-" \o StrfCompact(day) \o "-" \o Pad(ToString(RankInDay(i)), 4)

\* C2: in every reachable state (crashes included, no file removed by hand)
\* every invoice row's file_path names a file that exists.
C2_RowHasFile == \A i \in DOMAIN invoices : invoices[i].file_path \in files

\* C3: no two invoice rows share an invoice_number or a file_path.
C3_OneFilePerInvoice ==
    \A i, j \in DOMAIN invoices :
        i # j => /\ invoices[i].invoice_number # invoices[j].invoice_number
                 /\ invoices[i].file_path # invoices[j].file_path

\* C4: in every committed state of the store (crashes inside save_invoice
\* included) every invoice row has at least one invoice_items row, and a
\* save_invoice on an empty item list leaves the tables as they were.
C4_HeaderWithItems ==
    [][ /\ \A i \in DOMAIN invoices' : \E k \in DOMAIN invoice_items' :
              invoice_items'[k].invoice_id = invoices'[i].id
        /\ (last'.op = "save" /\ last'.out = "error") =>
              UNCHANGED <<customers, invoices, invoice_items>> ]_vars

\* what must be gone once invoice iid, whose artifact was at path, is deleted
Gone(iid, path, its, invs, fs, hist) ==
    /\ \A k \in DOMAIN its : its[k].invoice_id # iid
    /\ \A i \in DOMAIN invs : invs[i].id # iid
    /\ path \notin fs
    /\ \A k \in DOMAIN hist : hist[k] # iid

\* C5 as stated: a confirmed delete_selected_invoice of a stored id, whether
\* or not its artifact exists, leaves no item row and no invoice row of the
\* id, no file at its file_path, and no history row of the id.
C5_DeleteRemovesAll ==
    [][ (last'.op = "delete" /\ last'.out = "done") =>
            Gone(last'.id, FilePathOf(invoices, last'.id),
                 invoice_items', invoices', files', hist_tree') ]_vars

\* C5 as amended: the same, except that the file may remain when os.remove
\* itself fails (the handler swallows that error and goes on).
C5_DeleteRemovesAllButLockedFile ==
    [][ (last'.op = "delete" /\ last'.out = "done") =>
            Gone(last'.id,
                 IF last'.note = "remove_failed" THEN "" ELSE FilePathOf(invoices, last'.id),
                 invoice_items', invoices', files', hist_tree') ]_vars

\* a delete has just completed for an invoice whose artifact was already absent
C5_Witness ==
    /\ last.op = "delete" /\ last.out = "done" /\ last.note = "file_absent"
    /\ sqlite_sequence.invoices > 0

\* C6: the customers table never holds two rows with the same (name, phone).
C6_NoDuplicateCustomer ==
    \A i, j \in DOMAIN customers :
        (customers[i].name = customers[j].name /\ customers[i].phone = customers[j].phone)
            => i = j

\* C7: no pending line and no persisted invoice_items row has qty <= 0,
\* unit_price < 0, discount_percent < 0 or tax_percent < 0.
C7_OnlyValidLines ==
    /\ \A i \in DOMAIN items_tree :
          /\ items_tree[i].qty > 0
          /\ items_tree[i].unit_price >= 0
          /\ items_tree[i].disc_pct >= 0
          /\ items_tree[i].tax_pct >= 0
    /\ \A k \in DOMAIN invoice_items :
          /\ invoice_items[k].qty > 0
          /\ invoice_items[k].unit_price.m >= 0
          /\ invoice_items[k].discount_percent.m >= 0
          /\ invoice_items[k].tax_percent.m >= 0

\* C8: when create_invoice_pdf raises inside save_invoice, the invoices and
\* invoice_items tables are exactly as before the save started.
C8_FailedPdfLeavesNoRow ==
    [][ (last'.op = "save" /\ last'.out = "pdf_failed") =>
            (invoices' = invoices /\ invoice_items' = invoice_items) ]_vars

\* a save has just failed in create_invoice_pdf, after its customer was stored
C8_Witness ==
    /\ last.op = "save" /\ last.out = "pdf_failed"
    /\ customers # <<>> /\ items_tree # <<>>

\* valid lines: qty > 0, unit_price >= 0, percentages within [0, 100]
ValidTree ==
    \A i \in DOMAIN items_tree :
        /\ items_tree[i].qty > 0
        /\ items_tree[i].unit_price >= 0
        /\ items_tree[i].disc_pct \in 0..10000
        /\ items_tree[i].tax_pct \in 0..10000

\* C9: for valid lines and an invoice discount within [0, 100], compute_totals
\* and create_invoice_pdf return the same final_total.
C9_TotalsAgree ==
    ValidTree =>
        \A disc \in InvDiscEntriesP :
            compute_totals(items_tree, disc).final_total =
                create_invoice_pdf(build_items(items_tree), Float(disc)).final_total

\* C10: every persisted invoice row has
\* final_total = subtotal + taxes - subtotal * (discount_percent / 100),
\* and a later command never changes a row that is still stored.
C10_StoredTotalFormula ==
    [][ /\ \A i \in DOMAIN invoices' :
              invoices'[i].final_total =
                  FSub(FAdd(invoices'[i].subtotal, invoices'[i].taxes),
                       FMul(invoices'[i].subtotal,
                            FDiv(invoices'[i].discount_percent, Hundred)))
        /\ \A i \in DOMAIN invoices : \A j \in DOMAIN invoices' :
              invoices'[j].id = invoices[i].id => invoices'[j] = invoices[i] ]_vars

\* C11: once the Company Details save has run, company.json holds the saved
\* profile and load_company() returns it; and with company.json absent
\* load_company() returns the fixed default values.
C11_CompanyRoundTrip ==
    /\ last.op = "save_company" =>
          /\ company_json = JsonFile(COMPANY)
          /\ load_company(company_json) = COMPANY
    /\ company_json = NoFile => load_company(company_json) = DEFAULT_COMPANY

\* C12: an export that gets a non-empty selection and a path ends well, and
\* the workbook then holds the header row followed by one data row per
\* selected id, the i-th row being the stored row of the i-th selected id.
C12_ExportRowsInOrder ==
    [][ (last'.op = "export" /\ last'.out \notin {"error", "cancelled"}) =>
            /\ last'.out = "ok"
            /\ workbook'.header = ExportHeader
            /\ Len(workbook'.rows) = Len(last'.sel)
            /\ \A k \in DOMAIN last'.sel :
                  \E i \in DOMAIN invoices :
                     /\ invoices[i].id = hist_tree[last'.sel[k]]
                     /\ workbook'.rows[k].id = invoices[i].id
                     /\ workbook'.rows[k].invoice_number = invoices[i].invoice_number
                     /\ workbook'.rows[k].date = invoices[i].date
                     /\ workbook'.rows[k].final_total = invoices[i].final_total
                     /\ workbook'.rows[k].file_path = invoices[i].file_path ]_vars

\* two invoices, listed newest first, have just been exported together
C12_Witness ==
    /\ last.op = "export" /\ last.out = "ok"
    /\ Len(last.sel) = 2
    /\ Len(workbook.rows) = 2
    /\ workbook.rows[1].id > workbook.rows[2].id

\* every path a save can give an invoice: INV-<date>-<n>.pdf under PDF_DIR
SavePaths ==
    {PathJoin(PDF_DIR, "INV-" \o StrfCompact(day) \o "-" \o Pad(ToString(n), 4) \o ".pdf") :
        day \in 1..MaxDay, n \in 1..(MaxInvoices + 1)}

\* C13: preview_pdf adds and removes no row of customers, invoices or
\* invoice_items, leaves the next invoice number as it was, and creates no
\* file at the file_path of a stored invoice or at a path a save can use.
C13_PreviewLeavesStore ==
    [][ last'.op = "preview" =>
            /\ UNCHANGED <<customers, invoices, invoice_items, sqlite_sequence>>
            /\ generate_invoice_number(invoices', today')
                   = generate_invoice_number(invoices, today)
            /\ \A p \in files' \ files :
                  /\ p \notin SavePaths
                  /\ \A i \in DOMAIN invoices : invoices[i].file_path # p ]_vars

\* a preview has just written its file while an invoice of the same date is stored
C13_Witness ==
    /\ last.op = "preview" /\ last.out = "ok"
    /\ invoices # <<>>
    /\ invoices[Len(invoices)].date = StrfDateTime(today)
    /\ PreviewPath(generate_invoice_number(invoices, today)) \in files

\* C14: every item row is drawn after a table header on the same page, no
\* row is drawn with the cursor beyond the threshold (a new page was started
\* instead), a row never directly follows something drawn on another page,
\* and every item gets its row.
C14_HeaderOnEveryPage ==
    /\ \A k \in DOMAIN pdf_pages.log :
          pdf_pages.log[k].kind = "row" =>
              /\ \E j \in 1..(k - 1) :
                    /\ pdf_pages.log[j].kind = "header"
                    /\ pdf_pages.log[j].page = pdf_pages.log[k].page
              /\ pdf_pages.log[k].y <= Threshold
              /\ pdf_pages.log[k - 1].page = pdf_pages.log[k].page
    /\ last.op = "render" =>
          Cardinality({k \in DOMAIN pdf_pages.log : pdf_pages.log[k].kind = "row"})
              = last.id - pdf_pages.todo

\* a finished table that broke twice in the middle: rows on pages 1, 2 and 3
C14_Witness ==
    /\ last.op = "render" /\ pdf_pages.todo = 0
    /\ \A pg \in 1..3 :
          \E k \in DOMAIN pdf_pages.log :
              pdf_pages.log[k].kind = "row" /\ pdf_pages.log[k].page = pg

\* the tax rates of the lines
RatesOf(items) == {items[i].tax_percent : i \in DOMAIN items}

\* the tax_amount of the first n lines that carry the rate, added in line order
RECURSIVE RateSum(_, _, _)
RateSum(items, rate, n) ==
    IF n = 0 THEN Zero
    ELSE IF items[n].tax_percent = rate
    THEN FAdd(RateSum(items, rate, n - 1),
              LineAmounts(items[n].qty, items[n].unit_price,
                          items[n].discount_percent, items[n].tax_percent).tax_amount)
    ELSE RateSum(items, rate, n - 1)

\* tax_totals has one entry for each rate of rates and no other, each with
\* the sum of its lines, and the totals block has one line per entry
GroupsByRate(items, tax_totals, lines, rates) ==
    /\ {tax_totals[k].pct : k \in DOMAIN tax_totals} = rates
    /\ \A j, k \in DOMAIN tax_totals : tax_totals[j].pct = tax_totals[k].pct => j = k
    /\ \A k \in DOMAIN tax_totals :
          tax_totals[k].amt = RateSum(items, tax_totals[k].pct, Len(items))
    /\ Len(lines) = Len(tax_totals)
    /\ {lines[k] : k \in DOMAIN lines} = {tax_totals[k] : k \in DOMAIN tax_totals}

TaxGroupsOf(items, tax_totals, rates) ==
    GroupsByRate(items, tax_totals, TaxLines(tax_totals), rates)

\* C15 as stated: the renderer's tax_totals has exactly one entry per distinct
\* tax rate among the lines, its value the sum of tax_amount over the lines
\* with that rate, and the totals block shows one line per entry.
C15_OneEntryPerRate ==
    TaxGroupsOf(build_items(items_tree),
                create_invoice_pdf(build_items(items_tree), Zero).tax_totals,
                RatesOf(build_items(items_tree)))

\* C15 as amended: the same for the distinct non-zero rates; a rate of 0
\* gets no entry and no line.
C15_OneEntryPerNonZeroRate ==
    TaxGroupsOf(build_items(items_tree),
                create_invoice_pdf(build_items(items_tree), Zero).tax_totals,
                {rate \in RatesOf(build_items(items_tree)) : rate.m # 0})

\* a preview of three lines: two share a non-zero rate, one has another
C15_Witness ==
    /\ last.op = "preview" /\ last.out = "ok"
    /\ Len(items_tree) = 3
    /\ items_tree[1].tax_pct = items_tree[3].tax_pct
    /\ items_tree[1].tax_pct # 0
    /\ items_tree[2].tax_pct \notin {0, items_tree[1].tax_pct}

\* C16: every item row written by a save_invoice that ran to its end stores
\* as product_id the id of the product that was selected for that line.
C16_StoredProductId ==
    [][ (last'.op = "save" /\ last'.out = "ok") =>
            \A i \in DOMAIN items_tree :
                invoice_items'[Len(invoice_items) + i].product_id = items_tree[i].prod_id ]_vars

====
